---------------------------- MODULE Spec2Model ----------------------------
(***************************************************************************)
(* A model of the OpenShift master health analyzer, src/src/master_health.py *)
(* (class MasterHealth): the two paginated fetchers, the probes and the    *)
(* report run.                                                             *)
(*                                                                         *)
(* A Python call either returns a value or raises: an outcome is a record  *)
(* [raised, val], val being the returned value or the exception's cause.   *)
(* A try/except is the choice between the body's value and the handler's.  *)
(***************************************************************************)
EXTENDS Integers, Sequences, FiniteSets, TLC

VARIABLES
    \* ---- one call of a paginated fetcher --------------------------------
    pages,        \* the server's collection, cut into pages (a page: a list of items)
    fetcher,      \* "pods": _get_paginated_pods; "response": _get_paginated_response
    fpc,          \* "attempt" | "paging" | "returned" | "raised"
    kwargs,       \* the keyword arguments of api_call: [limit, continue], 0: key absent
    response,     \* the last page received: [items, continue], continue 0: empty or absent
    items,        \* the list being accumulated
    retry_count,
    last_error,
    sleeps,       \* the number of time.sleep(1) calls
    attempts,     \* the number of iterations of the retry loop entered
    requests,     \* every api_call made: [continue, ok]
    fresult,      \* the list returned (when fpc = "returned")
    ferror,       \* the cause carried by the exception raised (when fpc = "raised")
    \* ---- one call of check_master_nodes ---------------------------------
    mquery,       \* the outcome of nodes.get(label_selector=...): the nodes, or raised
    mpc,          \* "query" | "loop" | "conds" | "done"
    mi,           \* the number of nodes taken from master_nodes.items
    mci,          \* the number of conditions of the current node examined
    node_status,  \* the record being derived for the current node
    mresults,     \* results
    mwarned,      \* "No master nodes found" was printed
    master_status, \* the list returned
    \* ---- one call of check_critical_operators ---------------------------
    oquery,       \* the outcome of operators.get(): the cluster operators, or raised
    opc,          \* "query" | "loop" | "conds" | "done"
    oi,
    oci,
    operator_status_rec, \* operator_status, the record of the current operator
    oresults,
    operator_status,     \* the list returned
    \* ---- one call of check_etcd_health ----------------------------------
    equery,       \* the outcome of operators.get(field_selector='metadata.name=etcd')
    epc,          \* "operator" | "pods" | "done"
    elisting,     \* the server's answer to the listing of the etcd pods
    epod_fetches, \* the number of calls of _get_paginated_pods
    etcd_status,  \* the verdict returned
    \* ---- one call of check_control_plane_pods ---------------------------
    cpc,          \* "loop" | "done"
    clistings,    \* the server's answers to the pod listings made so far, one per namespace
    cresults,     \* results
    control_plane_status, \* the list returned
    \* ---- one call of check_certificates ---------------------------------
    cert_query,   \* the outcome of configmaps.get(namespace=..., label_selector=...)
    certpc,       \* "query" | "scan" | "done"
    cm_i,         \* the number of configmaps of cert_configmaps.items scanned
    cert_issues,  \* issues
    cert_status,  \* the verdict returned
    \* ---- one run of generate_master_health_report -----------------------
    rpc,          \* the probe to call next, "report", "done" or "aborted"
    invoked,      \* the probes called so far, in order
    failed,       \* the probes a retrieval of which failed
    results_of,   \* the result each probe returned
    handed,       \* the results passed to generate_health_report, by probe
    report        \* what generate_health_report printed

fetchVars == <<pages, fetcher, fpc, kwargs, response, items, retry_count,
               last_error, sleeps, attempts, requests, fresult, ferror>>

masterVars == <<mquery, mpc, mi, mci, node_status, mresults, mwarned, master_status>>

operatorVars == <<oquery, opc, oi, oci, operator_status_rec, oresults, operator_status>>

etcdVars == <<equery, epc, elisting, epod_fetches, etcd_status>>

controlPlaneVars == <<cpc, clistings, cresults, control_plane_status>>

certVars == <<cert_query, certpc, cm_i, cert_issues, cert_status>>

runVars == <<rpc, invoked, failed, results_of, handed, report>>

vars == <<fetchVars, masterVars, operatorVars, etcdVars, controlPlaneVars,
          certVars, runVars>>

\* What a call of one operation leaves alone: the state of the others.
notFetchVars ==
    <<masterVars, operatorVars, etcdVars, controlPlaneVars, certVars, runVars>>
notMasterVars ==
    <<fetchVars, operatorVars, etcdVars, controlPlaneVars, certVars, runVars>>
notOperatorVars ==
    <<fetchVars, masterVars, etcdVars, controlPlaneVars, certVars, runVars>>
notEtcdVars ==
    <<fetchVars, masterVars, operatorVars, controlPlaneVars, certVars, runVars>>
notControlPlaneVars ==
    <<fetchVars, masterVars, operatorVars, etcdVars, certVars, runVars>>
notCertVars ==
    <<fetchVars, masterVars, operatorVars, etcdVars, controlPlaneVars, runVars>>
notRunVars ==
    <<fetchVars, masterVars, operatorVars, etcdVars, controlPlaneVars, certVars>>

----------------------------------------------------------------------------
(* Bounds of the model *)
MaxPages == 3
MaxPageLen == 2
MaxNodes == 2            \* master nodes in one response
MaxNodeConditions == 2   \* node conditions in one response, all nodes together
MaxOperators == 2        \* cluster operators in one response
MaxOperatorConditions == 2  \* operator conditions in one response, all operators together
MaxPods == 2             \* pods in one listing
MaxContainers == 2       \* containers in one listing, all pods together
MaxConfigMaps == 2       \* configmaps in one response
MaxCerts == 2            \* entries of data in one response, all configmaps together

----------------------------------------------------------------------------
(* Outcomes of a call *)
Ret(v) == [raised |-> FALSE, val |-> v]
Raise(e) == [raised |-> TRUE, val |-> e]

RECURSIVE Flatten(_)
Flatten(ss) == IF ss = <<>> THEN <<>> ELSE Head(ss) \o Flatten(Tail(ss))

RECURSIVE SumSeq(_)
SumSeq(s) == IF s = <<>> THEN 0 ELSE Head(s) + SumSeq(Tail(s))

----------------------------------------------------------------------------
(* The list API of the server: a collection served in pages linked by       *)
(* continuation tokens. The token handed out with page i is i (the number   *)
(* of pages already served); the last page carries none (0).               *)
ListPage(pg, token) ==
    [items    |-> pg[token + 1],
     continue |-> IF token + 1 < Len(pg) THEN token + 1 ELSE 0]

\* The items are numbered 1, 2, ... in server order; sizes[i] is the size of page i.
PagesOfSizes(sizes) ==
    [i \in 1..Len(sizes) |->
        [j \in 1..sizes[i] |-> SumSeq(SubSeq(sizes, 1, i - 1)) + j]]

PageSizes == UNION {[1..n -> 0..MaxPageLen] : n \in 1..MaxPages}

----------------------------------------------------------------------------
(* _get_paginated_pods: the first page, then pages while the token is set;  *)
(* any exception gives the empty list. failAt is the number of the request  *)
(* that raises (0: none does).                                              *)
pods_limit == 100

RECURSIVE PodsLoop(_, _, _, _, _)
PodsLoop(pg, failAt, pod_list, pods, n) ==
    IF pod_list.continue = 0
    THEN Ret(pods)
    ELSE IF failAt = n + 1
         THEN Raise(n + 1)
         ELSE LET next_list == ListPage(pg, pod_list.continue)
              IN  IF next_list.items # <<>>
                  THEN PodsLoop(pg, failAt, next_list, pods \o next_list.items, n + 1)
                  ELSE Ret(pods)     \* else: break

PodsBody(pg, failAt) ==
    IF failAt = 1
    THEN Raise(1)
    ELSE LET pod_list == ListPage(pg, 0)
         IN  PodsLoop(pg, failAt, pod_list, pod_list.items, 1)

GetPaginatedPods(pg, failAt) ==
    LET body == PodsBody(pg, failAt)
    IN  IF body.raised THEN <<>> ELSE body.val

----------------------------------------------------------------------------
(* _get_paginated_response *)
max_retries == 3
response_limit == 50

NoResponse == [items |-> <<>>, continue |-> 0]

\* while retry_count < max_retries
RetryLoopGuard(rc) == rc < max_retries

\* A faulty variant: the sleep is not guarded, so it also follows the last attempt.
SleepBeforeRetry_Always(rc) == TRUE

\* if retry_count < max_retries: time.sleep(1); continue
SleepBeforeRetry(rc) == rc < max_retries

IdleFetch ==
    /\ pages = <<>>
    /\ fetcher = "none"
    /\ fpc = "idle"
    /\ kwargs = [limit |-> 0, continue |-> 0]
    /\ response = NoResponse
    /\ items = <<>>
    /\ retry_count = 0
    /\ last_error = 0
    /\ sleeps = 0
    /\ attempts = 0
    /\ requests = <<>>
    /\ fresult = <<>>
    /\ ferror = 0

InitFetch ==
    /\ \E sizes \in PageSizes : pages = PagesOfSizes(sizes)
    /\ fetcher \in {"pods", "response"}
    /\ fpc = "attempt"
    /\ kwargs = [limit |-> 0, continue |-> 0]
    /\ response = NoResponse
    /\ items = <<>>
    /\ retry_count = 0
    /\ last_error = 0
    /\ sleeps = 0
    /\ attempts = 0
    /\ requests = <<>>
    /\ fresult = <<>>
    /\ ferror = 0

\* The whole of _get_paginated_pods, request number failAt raising.
GetPaginatedPodsCall ==
    /\ fetcher = "pods"
    /\ fpc = "attempt"
    /\ \E failAt \in 0..Len(pages) :
         /\ fresult' = GetPaginatedPods(pages, failAt)
         /\ requests' = IF failAt = 0 THEN <<>> ELSE <<[continue |-> failAt - 1, ok |-> FALSE]>>
    /\ kwargs' = [limit |-> pods_limit, continue |-> 0]
    /\ fpc' = "returned"
    /\ UNCHANGED <<pages, fetcher, response, items, retry_count, last_error,
                   sleeps, attempts, ferror>>
    /\ UNCHANGED notFetchVars

\* A page received: return items when it carries no token.
Received(resp, its) ==
    /\ response' = resp
    /\ items' = its
    /\ IF resp.continue = 0
       THEN fpc' = "returned" /\ fresult' = its
       ELSE fpc' = "paging" /\ UNCHANGED fresult

\* The first api_call of an iteration of the retry loop succeeds.
ResponseFirstPage ==
    /\ fetcher = "response"
    /\ fpc = "attempt"
    /\ RetryLoopGuard(retry_count)
    /\ kwargs' = [kwargs EXCEPT !.limit = response_limit]
    /\ attempts' = attempts + 1
    /\ requests' = Append(requests, [continue |-> kwargs.continue, ok |-> TRUE])
    /\ LET resp == ListPage(pages, kwargs.continue)
       IN  Received(resp, resp.items)
    /\ UNCHANGED <<pages, fetcher, retry_count, last_error, sleeps, ferror>>
    /\ UNCHANGED notFetchVars

\* while response.metadata._continue: the api_call for the next page succeeds.
ResponseNextPage ==
    /\ fetcher = "response"
    /\ fpc = "paging"
    /\ response.continue # 0
    /\ kwargs' = [kwargs EXCEPT !.continue = response.continue]
    /\ requests' = Append(requests, [continue |-> response.continue, ok |-> TRUE])
    /\ LET resp == ListPage(pages, response.continue)
       IN  Received(resp, items \o resp.items)
    /\ UNCHANGED <<pages, fetcher, retry_count, last_error, sleeps, attempts, ferror>>
    /\ UNCHANGED notFetchVars

\* An api_call raises: the except clause, and the raise that follows the loop
\* when the retries are used up. The cause is the number of the failed request.
ResponseFail ==
    /\ fetcher = "response"
    /\ \/ fpc = "attempt" /\ RetryLoopGuard(retry_count)
       \/ fpc = "paging" /\ response.continue # 0
    /\ LET cause == Len(requests) + 1
           token == IF fpc = "attempt" THEN kwargs.continue ELSE response.continue
       IN  /\ kwargs' = [limit |-> response_limit, continue |-> token]
           /\ requests' = Append(requests, [continue |-> token, ok |-> FALSE])
           /\ last_error' = cause
           /\ retry_count' = retry_count + 1
           /\ attempts' = IF fpc = "attempt" THEN attempts + 1 ELSE attempts
           /\ sleeps' = IF SleepBeforeRetry(retry_count + 1) THEN sleeps + 1 ELSE sleeps
           /\ IF RetryLoopGuard(retry_count + 1)
              THEN fpc' = "attempt" /\ UNCHANGED ferror
              ELSE fpc' = "raised" /\ ferror' = cause
    /\ UNCHANGED <<pages, fetcher, response, items, fresult>>
    /\ UNCHANGED notFetchVars

NextFetch ==
    \/ GetPaginatedPodsCall
    \/ ResponseFirstPage
    \/ ResponseNextPage
    \/ ResponseFail


----------------------------------------------------------------------------
(* Condition lists. The conditions of one object are keyed by their type:   *)
(* a list holds each type at most once, in any order. A message is a text   *)
(* (a tuple of strings); the message of a condition names the condition.    *)
ConditionStatuses == {"True", "False", "Unknown"}

Conditions(types) ==
    {[type |-> t, status |-> s, message |-> <<t, s>>] :
        t \in types, s \in ConditionStatuses}

TypesOf(conds) == {conds[i].type : i \in 1..Len(conds)}

RECURSIVE ConditionListsOfLen(_, _)
ConditionListsOfLen(types, n) ==
    IF n = 0
    THEN {<<>>}
    ELSE {Append(p[1], p[2]) :
            p \in {q \in ConditionListsOfLen(types, n - 1) \X Conditions(types) :
                     q[2].type \notin TypesOf(q[1])}}

ConditionLists(types, n) == UNION {ConditionListsOfLen(types, k) : k \in 0..n}

\* The lists of at most k condition lists holding at most budget conditions together.
RECURSIVE ConditionListSeqs(_, _, _)
ConditionListSeqs(types, k, budget) ==
    IF k = 0
    THEN {<<>>}
    ELSE {<<>>} \cup
         UNION {{<<cl>> \o rest :
                    rest \in ConditionListSeqs(types, k - 1, budget - Len(cl))} :
                cl \in ConditionLists(types, budget)}

\* The cause of an exception raised by a cluster query, as str(e) gives it.
ApiError == <<"ApiException">>

----------------------------------------------------------------------------
(* check_master_nodes *)
NodeConditionTypes == {"Ready", "DiskPressure", "MemoryPressure", "PIDPressure"}
PressureTypes == {"DiskPressure", "MemoryPressure", "PIDPressure"}

NodeName(i) == <<"master", i>>
UnknownName == <<"unknown", 0>>

NewNodeStatus(node) ==
    [name |-> node.name, status |-> "Healthy", issues |-> <<>>, warnings |-> <<>>]

\* f"Node not ready: {condition.message}", f"{condition.type}: {condition.message}"
ReadyIssue(condition) == <<"Node not ready: ">> \o condition.message
PressureWarning(condition) == <<condition.type, ": ">> \o condition.message

\* A faulty variant: a Ready condition that is True sets the status back to
\* Healthy, whatever was recorded before.
NodeCondition_ReadyResets(ns, condition) ==
    IF condition.type = "Ready"
    THEN IF condition.status # "True"
         THEN [ns EXCEPT !.status = "Unhealthy",
                         !.issues = Append(@, ReadyIssue(condition))]
         ELSE [ns EXCEPT !.status = "Healthy"]
    ELSE IF condition.type \in PressureTypes /\ condition.status = "True"
         THEN [ns EXCEPT !.status = "Warning",
                         !.warnings = Append(@, PressureWarning(condition))]
         ELSE ns

\* The body of: for condition in node.status.conditions
NodeCondition(ns, condition) ==
    IF condition.type = "Ready" /\ condition.status # "True"
    THEN [ns EXCEPT !.status = "Unhealthy",
                    !.issues = Append(@, ReadyIssue(condition))]
    ELSE IF condition.type \in PressureTypes /\ condition.status = "True"
         THEN [ns EXCEPT !.status = "Warning",
                         !.warnings = Append(@, PressureWarning(condition))]
         ELSE ns

RECURSIVE NodeConditions(_, _)
NodeConditions(ns, conds) ==
    IF conds = <<>> THEN ns
    ELSE NodeConditions(NodeCondition(ns, Head(conds)), Tail(conds))

\* except Exception as e
MasterNodesError(e) ==
    <<[name |-> UnknownName, status |-> "Error", issues |-> <<e>>, warnings |-> <<>>]>>

\* The whole of check_master_nodes on the outcome of the node query.
CheckMasterNodes(query) ==
    IF query.raised
    THEN MasterNodesError(query.val)
    ELSE [i \in 1..Len(query.val) |->
            NodeConditions(NewNodeStatus(query.val[i]), query.val[i].conditions)]

\* The responses of the node query: at most n nodes, c conditions together.
NodeLists(n, c) ==
    {[i \in 1..Len(cls) |-> [name |-> NodeName(i), conditions |-> cls[i]]] :
        cls \in ConditionListSeqs(NodeConditionTypes, n, c)}

MasterQueries(n, c) == {Raise(ApiError)} \cup {Ret(nodes) : nodes \in NodeLists(n, c)}

NoEntity == [name |-> UnknownName, status |-> "None", issues |-> <<>>, warnings |-> <<>>]

IdleMaster ==
    /\ mquery = Ret(<<>>)
    /\ mpc = "idle"
    /\ mi = 0
    /\ mci = 0
    /\ node_status = NoEntity
    /\ mresults = <<>>
    /\ mwarned = FALSE
    /\ master_status = <<>>

InitMaster ==
    /\ mquery \in MasterQueries(MaxNodes, MaxNodeConditions)
    /\ mpc = "query"
    /\ mi = 0
    /\ mci = 0
    /\ node_status = NoEntity
    /\ mresults = <<>>
    /\ mwarned = FALSE
    /\ master_status = <<>>

\* nodes.get(...) raises: the except clause returns the Error entity.
MasterQueryRaises ==
    /\ mpc = "query"
    /\ mquery.raised
    /\ master_status' = MasterNodesError(mquery.val)
    /\ mpc' = "done"
    /\ UNCHANGED <<mquery, mi, mci, node_status, mresults, mwarned>>
    /\ UNCHANGED notMasterVars

MasterQueryReturns ==
    /\ mpc = "query"
    /\ ~mquery.raised
    /\ mresults' = <<>>
    /\ mpc' = "loop"
    /\ UNCHANGED <<mquery, mi, mci, node_status, mwarned, master_status>>
    /\ UNCHANGED notMasterVars

\* for node in master_nodes.items: a new node_status
MasterBeginNode ==
    /\ mpc = "loop"
    /\ mi < Len(mquery.val)
    /\ mi' = mi + 1
    /\ node_status' = NewNodeStatus(mquery.val[mi + 1])
    /\ mci' = 0
    /\ mpc' = "conds"
    /\ UNCHANGED <<mquery, mresults, mwarned, master_status>>
    /\ UNCHANGED notMasterVars

\* for condition in node.status.conditions
MasterCondition ==
    /\ mpc = "conds"
    /\ mci < Len(mquery.val[mi].conditions)
    /\ node_status' = NodeCondition(node_status, mquery.val[mi].conditions[mci + 1])
    /\ mci' = mci + 1
    /\ UNCHANGED <<mquery, mpc, mi, mresults, mwarned, master_status>>
    /\ UNCHANGED notMasterVars

\* results.append(node_status)
MasterAppendNode ==
    /\ mpc = "conds"
    /\ mci = Len(mquery.val[mi].conditions)
    /\ mresults' = Append(mresults, node_status)
    /\ mpc' = "loop"
    /\ UNCHANGED <<mquery, mi, mci, node_status, mwarned, master_status>>
    /\ UNCHANGED notMasterVars

\* if not results: print the warning; return results
MasterReturn ==
    /\ mpc = "loop"
    /\ mi = Len(mquery.val)
    /\ mwarned' = (mresults = <<>>)
    /\ master_status' = mresults
    /\ mpc' = "done"
    /\ UNCHANGED <<mquery, mi, mci, node_status, mresults>>
    /\ UNCHANGED notMasterVars

NextMaster ==
    \/ MasterQueryRaises
    \/ MasterQueryReturns
    \/ MasterBeginNode
    \/ MasterCondition
    \/ MasterAppendNode
    \/ MasterReturn

----------------------------------------------------------------------------
(* check_critical_operators *)
OperatorConditionTypes == {"Degraded", "Progressing", "Available"}

OperatorName(i) == <<"operator", i>>

NewOperatorStatus(operator) ==
    [name |-> operator.name, status |-> "Healthy", issues |-> <<>>]

\* The body of: for condition in operator.status.conditions
OperatorCondition(os, condition) ==
    IF condition.type = "Degraded" /\ condition.status = "True"
    THEN [os EXCEPT !.status = "Unhealthy",
                    !.issues = Append(@, condition.message)]
    ELSE IF condition.type = "Progressing" /\ condition.status = "True"
         THEN [os EXCEPT !.status = "Warning",
                         !.issues = Append(@, <<"Operator is progressing: ">> \o condition.message)]
         ELSE IF condition.type = "Available" /\ condition.status # "True"
              THEN [os EXCEPT !.status = "Unhealthy",
                              !.issues = Append(@, <<"Operator not available: ">> \o condition.message)]
              ELSE os

RECURSIVE OperatorConditions(_, _)
OperatorConditions(os, conds) ==
    IF conds = <<>> THEN os
    ELSE OperatorConditions(OperatorCondition(os, Head(conds)), Tail(conds))

\* if hasattr(operator.status, 'conditions')
OperatorStatusOf(operator) ==
    IF operator.has_conditions
    THEN OperatorConditions(NewOperatorStatus(operator), operator.conditions)
    ELSE NewOperatorStatus(operator)

\* except Exception as e
OperatorsError(e) == <<[name |-> UnknownName, status |-> "Error", issues |-> <<e>>]>>

\* The whole of check_critical_operators on the outcome of the operator query.
CheckCriticalOperators(query) ==
    IF query.raised
    THEN OperatorsError(query.val)
    ELSE [i \in 1..Len(query.val) |-> OperatorStatusOf(query.val[i])]

\* The responses of the operator query: at most n operators, c conditions
\* together. An operator whose status has no conditions attribute holds none.
OperatorLists(n, c) ==
    UNION {{[i \in 1..Len(cls) |->
                [name |-> OperatorName(i),
                 has_conditions |-> i \notin noattr,
                 conditions |-> cls[i]]] :
              noattr \in SUBSET {i \in 1..Len(cls) : cls[i] = <<>>}} :
           cls \in ConditionListSeqs(OperatorConditionTypes, n, c)}

OperatorQueries(n, c) ==
    {Raise(ApiError)} \cup {Ret(ops) : ops \in OperatorLists(n, c)}

NoOperator == [name |-> UnknownName, status |-> "None", issues |-> <<>>]

IdleOperators ==
    /\ oquery = Ret(<<>>)
    /\ opc = "idle"
    /\ oi = 0
    /\ oci = 0
    /\ operator_status_rec = NoOperator
    /\ oresults = <<>>
    /\ operator_status = <<>>

InitOperators ==
    /\ oquery \in OperatorQueries(MaxOperators, MaxOperatorConditions)
    /\ opc = "query"
    /\ oi = 0
    /\ oci = 0
    /\ operator_status_rec = NoOperator
    /\ oresults = <<>>
    /\ operator_status = <<>>

\* operators.get() raises: the except clause returns the Error entity.
OperatorQueryRaises ==
    /\ opc = "query"
    /\ oquery.raised
    /\ operator_status' = OperatorsError(oquery.val)
    /\ opc' = "done"
    /\ UNCHANGED <<oquery, oi, oci, operator_status_rec, oresults>>
    /\ UNCHANGED notOperatorVars

OperatorQueryReturns ==
    /\ opc = "query"
    /\ ~oquery.raised
    /\ oresults' = <<>>
    /\ opc' = "loop"
    /\ UNCHANGED <<oquery, oi, oci, operator_status_rec, operator_status>>
    /\ UNCHANGED notOperatorVars

\* for operator in operator_list.items: a new operator_status
OperatorBegin ==
    /\ opc = "loop"
    /\ oi < Len(oquery.val)
    /\ oi' = oi + 1
    /\ operator_status_rec' = NewOperatorStatus(oquery.val[oi + 1])
    /\ oci' = 0
    /\ opc' = "conds"
    /\ UNCHANGED <<oquery, oresults, operator_status>>
    /\ UNCHANGED notOperatorVars

\* for condition in operator.status.conditions
OperatorConditionStep ==
    /\ opc = "conds"
    /\ oquery.val[oi].has_conditions
    /\ oci < Len(oquery.val[oi].conditions)
    /\ operator_status_rec' =
          OperatorCondition(operator_status_rec, oquery.val[oi].conditions[oci + 1])
    /\ oci' = oci + 1
    /\ UNCHANGED <<oquery, opc, oi, oresults, operator_status>>
    /\ UNCHANGED notOperatorVars

\* results.append(operator_status)
OperatorAppend ==
    /\ opc = "conds"
    /\ \/ ~oquery.val[oi].has_conditions
       \/ oci = Len(oquery.val[oi].conditions)
    /\ oresults' = Append(oresults, operator_status_rec)
    /\ opc' = "loop"
    /\ UNCHANGED <<oquery, oi, oci, operator_status_rec, operator_status>>
    /\ UNCHANGED notOperatorVars

\* return results
OperatorsReturn ==
    /\ opc = "loop"
    /\ oi = Len(oquery.val)
    /\ operator_status' = oresults
    /\ opc' = "done"
    /\ UNCHANGED <<oquery, oi, oci, operator_status_rec, oresults>>
    /\ UNCHANGED notOperatorVars

NextOperators ==
    \/ OperatorQueryRaises
    \/ OperatorQueryReturns
    \/ OperatorBegin
    \/ OperatorConditionStep
    \/ OperatorAppend
    \/ OperatorsReturn

----------------------------------------------------------------------------
(* Pods. A name is a text searched for substrings: a sequence of characters. *)
(* A pod has a phase and, when Running, one status per container; a pod     *)
(* object without a status attribute is the case hasattr(pod, 'status')     *)
(* guards against.                                                          *)
Digit(i) == <<"0", "1", "2", "3", "4", "5", "6", "7", "8", "9">>[i + 1]

ContainerName(j) == <<"c", Digit(j)>>

ContainerLists(c) ==
    UNION {{[j \in 1..k |-> [name |-> ContainerName(j), ready |-> b[j]]] :
              b \in [1..k -> BOOLEAN]} : k \in 0..c}

PodShapes(c) ==
    {[has_status |-> FALSE, phase |-> "Unknown", container_statuses |-> <<>>],
     [has_status |-> TRUE, phase |-> "Pending", container_statuses |-> <<>>]}
    \cup {[has_status |-> TRUE, phase |-> "Running", container_statuses |-> cs] :
            cs \in ContainerLists(c)}

\* The lists of at most n pod shapes holding at most c containers together.
RECURSIVE PodShapeLists(_, _)
PodShapeLists(n, c) ==
    IF n = 0
    THEN {<<>>}
    ELSE {<<>>} \cup
         UNION {{<<sh>> \o rest :
                    rest \in PodShapeLists(n - 1, c - Len(sh.container_statuses))} :
                sh \in PodShapes(c)}

Pod(name, sh) ==
    [name |-> name, has_status |-> sh.has_status, phase |-> sh.phase,
     container_statuses |-> sh.container_statuses]

\* How the server may answer the listing of the pods `pods`: in one page or
\* in two, and with the request number failAt raising (0: none).
Listings(pods) ==
    {[pages |-> <<pods>>, failAt |-> f] : f \in {0, 1}}
    \cup (IF Len(pods) < 2 THEN {}
          ELSE {[pages |-> <<SubSeq(pods, 1, 1), SubSeq(pods, 2, Len(pods))>>,
                 failAt |-> f] : f \in {0, 2}})

ListingFailed(listing) == listing.failAt # 0

NotRequested == [pages |-> <<>>, failAt |-> 0]

NotReady(container) == ~container.ready

----------------------------------------------------------------------------
(* check_etcd_health *)
EtcdPodName(i) == <<"e", "t", "c", "d", "-", Digit(i)>>

EtcdPodLists(n, c) ==
    {[i \in 1..Len(shs) |-> Pod(EtcdPodName(i), shs[i])] : shs \in PodShapeLists(n, c)}

\* The etcd cluster operator, when the query finds it.
EtcdOperators(c) ==
    {[has_conditions |-> FALSE, conditions |-> <<>>]}
    \cup {[has_conditions |-> TRUE, conditions |-> cl] :
            cl \in ConditionLists(OperatorConditionTypes, c)}

EtcdQueries(c) ==
    {Raise(ApiError), Ret(<<>>)} \cup {Ret(<<op>>) : op \in EtcdOperators(c)}

\* Stage 1, for condition in etcd_operator.status.conditions: the first
\* condition that fires decides; [decided, result].
RECURSIVE EtcdOperatorConditions(_)
EtcdOperatorConditions(conds) ==
    IF conds = <<>>
    THEN [decided |-> FALSE, result |-> [status |-> "Healthy"]]
    ELSE LET condition == Head(conds)
         IN  IF condition.type = "Degraded" /\ condition.status = "True"
             THEN [decided |-> TRUE,
                   result |-> [status |-> "Unhealthy", issues |-> <<condition.message>>]]
             ELSE IF condition.type = "Available" /\ condition.status # "True"
                  THEN [decided |-> TRUE,
                        result |-> [status |-> "Unhealthy",
                                    issues |-> <<<<"etcd operator not available: ">>
                                                   \o condition.message>>]]
                  ELSE EtcdOperatorConditions(Tail(conds))

\* Stage 1 on the outcome of the operator query (not raised).
EtcdOperatorStage(etcd_operator_list) ==
    IF etcd_operator_list = <<>>
    THEN [decided |-> TRUE,
          result |-> [status |-> "Error", error |-> <<"Unable to find etcd operator">>]]
    ELSE LET etcd_operator == etcd_operator_list[1]
         IN  IF etcd_operator.has_conditions
             THEN EtcdOperatorConditions(etcd_operator.conditions)
             ELSE [decided |-> FALSE, result |-> [status |-> "Healthy"]]

\* The entries one pod adds to unhealthy_pods.
EtcdPodIssues(pod) ==
    IF ~pod.has_status
    THEN <<pod.name \o <<": Unable to get pod status">>>>
    ELSE IF pod.phase # "Running"
         THEN <<pod.name \o <<": ", pod.phase>>>>
         ELSE LET bad == SelectSeq(pod.container_statuses, NotReady)
              IN  [j \in 1..Len(bad) |->
                      pod.name \o <<": container ">> \o bad[j].name \o <<" not ready">>]

\* A faulty variant: no pod found is reported like an unhealthy pod.
EtcdPodStage_NoPodsUnhealthy(etcd_pods) ==
    LET unhealthy_pods ==
            Flatten([i \in 1..Len(etcd_pods) |-> EtcdPodIssues(etcd_pods[i])])
    IN  IF etcd_pods = <<>> \/ unhealthy_pods # <<>>
        THEN [status |-> "Unhealthy", issues |-> unhealthy_pods]
        ELSE [status |-> "Healthy",
              message |-> <<"All etcd pods are running and ready">>]

\* Stage 2 on the pods _get_paginated_pods returned.
EtcdPodStage(etcd_pods) ==
    IF etcd_pods = <<>>
    THEN [status |-> "Error", error |-> <<"No etcd pods found">>]
    ELSE LET unhealthy_pods ==
                 Flatten([i \in 1..Len(etcd_pods) |-> EtcdPodIssues(etcd_pods[i])])
         IN  IF unhealthy_pods # <<>>
             THEN [status |-> "Unhealthy", issues |-> unhealthy_pods]
             ELSE [status |-> "Healthy",
                   message |-> <<"All etcd pods are running and ready">>]

\* except Exception as e
EtcdError(e) == [status |-> "Error", error |-> e]

\* The whole of check_etcd_health on the outcome of the operator query and
\* the server's answer to the pod listing.
CheckEtcdHealth(query, listing) ==
    IF query.raised
    THEN EtcdError(query.val)
    ELSE LET stage1 == EtcdOperatorStage(query.val)
         IN  IF stage1.decided
             THEN stage1.result
             ELSE EtcdPodStage(GetPaginatedPods(listing.pages, listing.failAt))

NoVerdict == [status |-> "None"]

IdleEtcd ==
    /\ equery = Ret(<<>>)
    /\ epc = "idle"
    /\ elisting = NotRequested
    /\ epod_fetches = 0
    /\ etcd_status = NoVerdict

InitEtcd ==
    /\ equery \in EtcdQueries(MaxOperatorConditions)
    /\ epc = "operator"
    /\ elisting = NotRequested
    /\ epod_fetches = 0
    /\ etcd_status = NoVerdict

\* operators.get(field_selector=...) raises: the except clause.
EtcdQueryRaises ==
    /\ epc = "operator"
    /\ equery.raised
    /\ etcd_status' = EtcdError(equery.val)
    /\ epc' = "done"
    /\ UNCHANGED <<equery, elisting, epod_fetches>>
    /\ UNCHANGED notEtcdVars

\* Stage 1 returns a verdict: no operator found, Degraded or not Available.
EtcdOperatorDecides ==
    /\ epc = "operator"
    /\ ~equery.raised
    /\ EtcdOperatorStage(equery.val).decided
    /\ etcd_status' = EtcdOperatorStage(equery.val).result
    /\ epc' = "done"
    /\ UNCHANGED <<equery, elisting, epod_fetches>>
    /\ UNCHANGED notEtcdVars

\* Stage 1 passes.
EtcdOperatorPasses ==
    /\ epc = "operator"
    /\ ~equery.raised
    /\ ~EtcdOperatorStage(equery.val).decided
    /\ epc' = "pods"
    /\ UNCHANGED <<equery, elisting, epod_fetches, etcd_status>>
    /\ UNCHANGED notEtcdVars

\* Stage 2: the pods of openshift-etcd are fetched and judged.
EtcdPods ==
    /\ epc = "pods"
    /\ \E pods \in EtcdPodLists(MaxPods, MaxContainers) :
         \E listing \in Listings(pods) :
            /\ elisting' = listing
            /\ etcd_status' = EtcdPodStage(GetPaginatedPods(listing.pages, listing.failAt))
    /\ epod_fetches' = epod_fetches + 1
    /\ epc' = "done"
    /\ UNCHANGED equery
    /\ UNCHANGED notEtcdVars

NextEtcd ==
    \/ EtcdQueryRaises
    \/ EtcdOperatorDecides
    \/ EtcdOperatorPasses
    \/ EtcdPods

----------------------------------------------------------------------------
(* check_control_plane_pods *)
critical_namespaces ==
    <<"openshift-etcd", "openshift-apiserver", "openshift-kube-apiserver",
      "openshift-kube-controller-manager", "openshift-kube-scheduler">>

\* ['etcd', 'apiserver', 'controller-manager', 'scheduler']
components ==
    {<<"e", "t", "c", "d">>,
     <<"a", "p", "i", "s", "e", "r", "v", "e", "r">>,
     <<"c", "o", "n", "t", "r", "o", "l", "l", "e", "r", "-", "m", "a", "n", "a", "g", "e", "r">>,
     <<"s", "c", "h", "e", "d", "u", "l", "e", "r">>}

\* Python's `sub in s` on texts
IsSubstring(sub, s) ==
    \E i \in 0..(Len(s) - Len(sub)) : SubSeq(s, i + 1, i + Len(sub)) = sub

\* any(component in pod.metadata.name for component in [...])
IsControlPlaneName(name) == \E component \in components : IsSubstring(component, name)

\* f'no-pods-in-{namespace}'
NoPodsPlaceholder(namespace) ==
    [name |-> <<"no-pods-in-", namespace>>, namespace |-> namespace,
     status |-> "Warning",
     issues |-> <<<<"No pods found in namespace ", namespace>>>>]

\* f'no-control-plane-pods-in-{namespace}'
NoControlPlanePlaceholder(namespace) ==
    [name |-> <<"no-control-plane-pods-in-", namespace>>, namespace |-> namespace,
     status |-> "Warning",
     issues |-> <<<<"No control plane pods found in namespace ", namespace>>>>]

\* The record of one control plane pod.
PodStatus(pod, namespace) ==
    LET pod_status == [name |-> pod.name, namespace |-> namespace,
                       status |-> "Healthy", issues |-> <<>>]
    IN  IF ~pod.has_status
        THEN [pod_status EXCEPT !.status = "Error",
                                !.issues = <<<<"Unable to get pod status">>>>]
        ELSE IF pod.phase # "Running"
             THEN [pod_status EXCEPT !.status = "Unhealthy",
                                     !.issues = <<<<"Pod not running: ", pod.phase>>>>]
             ELSE LET bad == SelectSeq(pod.container_statuses, NotReady)
                  IN  IF bad = <<>>
                      THEN pod_status
                      ELSE [pod_status EXCEPT
                              !.status = "Unhealthy",
                              !.issues = [j \in 1..Len(bad) |->
                                            <<"Container ">> \o bad[j].name
                                                \o <<" not ready">>]]

\* The records of the pods that pass the name filter, in order.
RECURSIVE ControlPlaneRecords(_, _)
ControlPlaneRecords(namespace_pods, namespace) ==
    IF namespace_pods = <<>>
    THEN <<>>
    ELSE (IF IsControlPlaneName(Head(namespace_pods).name)
          THEN <<PodStatus(Head(namespace_pods), namespace)>>
          ELSE <<>>) \o ControlPlaneRecords(Tail(namespace_pods), namespace)

\* A faulty variant: the `continue` after the 'no pods' placeholder is missing, so the
\* 'no control plane pods' placeholder follows it.
NamespaceRecords_NoContinue(namespace, namespace_pods) ==
    LET records == ControlPlaneRecords(namespace_pods, namespace)
    IN  (IF namespace_pods = <<>> THEN <<NoPodsPlaceholder(namespace)>> ELSE <<>>)
        \o records
        \o (IF records = <<>> THEN <<NoControlPlanePlaceholder(namespace)>> ELSE <<>>)

\* One iteration of: for namespace in critical_namespaces; what it appends
\* to results, given the pods _get_paginated_pods returned.
NamespaceRecords(namespace, namespace_pods) ==
    IF namespace_pods = <<>>
    THEN <<NoPodsPlaceholder(namespace)>>       \* and continue
    ELSE LET records == ControlPlaneRecords(namespace_pods, namespace)
             found_control_plane_pods == records # <<>>
         IN  IF ~found_control_plane_pods
             THEN <<NoControlPlanePlaceholder(namespace)>>
             ELSE records

\* if not results
NoResultsError ==
    <<[name |-> <<"unknown">>, namespace |-> "unknown", status |-> "Error",
       issues |-> <<<<"No control plane pods found in any namespace">>>>]>>

RECURSIVE AllNamespaceRecords(_, _)
AllNamespaceRecords(listings, k) ==
    IF k > Len(listings)
    THEN <<>>
    ELSE NamespaceRecords(critical_namespaces[k],
                          GetPaginatedPods(listings[k].pages, listings[k].failAt))
         \o AllNamespaceRecords(listings, k + 1)

\* The whole of check_control_plane_pods on the server's answers to the five
\* pod listings.
CheckControlPlanePods(listings) ==
    LET results == AllNamespaceRecords(listings, 1)
    IN  IF results = <<>> THEN NoResultsError ELSE results

\* Pods a control plane namespace may hold.
EtcdPod ==
    Pod(<<"e", "t", "c", "d", "-", "m", "a", "s", "t", "e", "r", "-", "0">>,
        [has_status |-> TRUE, phase |-> "Running",
         container_statuses |-> <<[name |-> ContainerName(1), ready |-> TRUE]>>])
ApiserverPod ==
    Pod(<<"k", "u", "b", "e", "-", "a", "p", "i", "s", "e", "r", "v", "e", "r", "-", "1">>,
        [has_status |-> TRUE, phase |-> "Pending", container_statuses |-> <<>>])
UnrelatedPod ==
    Pod(<<"f", "o", "o", "-", "u", "n", "r", "e", "l", "a", "t", "e", "d">>,
        [has_status |-> TRUE, phase |-> "Running",
         container_statuses |-> <<[name |-> ContainerName(1), ready |-> TRUE]>>])
SchedulerPod ==
    Pod(<<"o", "p", "e", "n", "s", "h", "i", "f", "t", "-", "k", "u", "b", "e", "-", "s", "c", "h", "e", "d", "u", "l", "e", "r", "-", "2">>,
        [has_status |-> TRUE, phase |-> "Running",
         container_statuses |-> <<[name |-> ContainerName(1), ready |-> FALSE],
                                  [name |-> ContainerName(2), ready |-> FALSE]>>])
ControllerManagerPod ==
    Pod(<<"k", "u", "b", "e", "-", "c", "o", "n", "t", "r", "o", "l", "l", "e", "r", "-", "m", "a", "n", "a", "g", "e", "r", "-", "3">>,
        [has_status |-> FALSE, phase |-> "Unknown", container_statuses |-> <<>>])
NearMissPod ==
    Pod(<<"s", "c", "h", "e", "d", "u", "l", "e", "-", "e", "t", "c">>,
        [has_status |-> TRUE, phase |-> "Pending", container_statuses |-> <<>>])

\* The answers of the server to the listing of one namespace: a failed
\* request, no pod, only pods that are not control plane pods, and control
\* plane pods alone or among others, in one page or two.
NamespaceListings ==
    {[pages |-> <<<<EtcdPod>>>>, failAt |-> 1],
     [pages |-> <<<<>>>>, failAt |-> 0],
     [pages |-> <<<<UnrelatedPod>>>>, failAt |-> 0],
     [pages |-> <<<<EtcdPod>>>>, failAt |-> 0],
     [pages |-> <<<<UnrelatedPod, ApiserverPod>>>>, failAt |-> 0],
     [pages |-> <<<<SchedulerPod>>, <<NearMissPod, ControllerManagerPod>>>>, failAt |-> 0]}

IdleControlPlane ==
    /\ cpc = "idle"
    /\ clistings = <<>>
    /\ cresults = <<>>
    /\ control_plane_status = <<>>

InitControlPlane ==
    /\ cpc = "loop"
    /\ clistings = <<>>
    /\ cresults = <<>>
    /\ control_plane_status = <<>>

\* One iteration of the loop over critical_namespaces: the pods of the next
\* namespace are fetched, and their records or a placeholder appended.
ControlPlaneNamespace ==
    /\ cpc = "loop"
    /\ Len(clistings) < Len(critical_namespaces)
    /\ \E listing \in NamespaceListings :
         /\ clistings' = Append(clistings, listing)
         /\ cresults' = cresults \o
               NamespaceRecords(critical_namespaces[Len(clistings) + 1],
                                GetPaginatedPods(listing.pages, listing.failAt))
    /\ UNCHANGED <<cpc, control_plane_status>>
    /\ UNCHANGED notControlPlaneVars

\* if not results: the Error entity; return results
ControlPlaneReturn ==
    /\ cpc = "loop"
    /\ Len(clistings) = Len(critical_namespaces)
    /\ control_plane_status' = (IF cresults = <<>> THEN NoResultsError ELSE cresults)
    /\ cpc' = "done"
    /\ UNCHANGED <<clistings, cresults>>
    /\ UNCHANGED notControlPlaneVars

NextControlPlane ==
    \/ ControlPlaneNamespace
    \/ ControlPlaneReturn

----------------------------------------------------------------------------
(* check_api_server_health and _check_api_endpoint *)

\* The outcome of requests.get(.../healthz): a status code, or raised.
\* response.status_code == 200; except Exception: return False
CheckApiEndpoint(endpoint) ==
    IF endpoint.raised THEN FALSE ELSE endpoint.val = 200

\* The record of one API server pod: its first container, when it has one.
ApiPodStatus(pod) ==
    [ready    |-> IF pod.container_statuses # <<>>
                  THEN pod.container_statuses[1].ready ELSE FALSE,
     restarts |-> IF pod.container_statuses # <<>>
                  THEN pod.container_statuses[1].restart_count ELSE 0,
     phase    |-> pod.phase]

\* The try block of check_api_server_health.
ApiStatus(api_pods, endpoint) ==
    [healthy_servers  |-> Cardinality({i \in 1..Len(api_pods) :
                                          ApiPodStatus(api_pods[i]).ready}),
     total_servers    |-> Len(api_pods),
     pod_status       |-> [name \in {api_pods[i].name : i \in 1..Len(api_pods)} |->
                             ApiPodStatus(
                                api_pods[CHOOSE i \in 1..Len(api_pods) :
                                            api_pods[i].name = name])],
     endpoint_healthy |-> CheckApiEndpoint(endpoint)]

\* A faulty variant: no except clause, the exception of the pod query leaves the probe.
CheckApiServerHealth_NoExcept(query, endpoint) ==
    IF query.raised
    THEN Raise(query.val)
    ELSE Ret(ApiStatus(query.val, endpoint))

\* The outcome of a call of check_api_server_health: the except clause turns
\* an exception of the pod query into the result {'error': str(e)}.
CheckApiServerHealth(query, endpoint) ==
    IF query.raised
    THEN Ret([error |-> query.val])
    ELSE Ret(ApiStatus(query.val, endpoint))

----------------------------------------------------------------------------
(* check_certificates *)
UpperCase == <<"E", "X", "P", "I", "R", "N", "G", "D">>
LowerCase == <<"e", "x", "p", "i", "r", "n", "g", "d">>

\* str.lower(), character by character
LowerChar(ch) ==
    IF \E i \in 1..Len(UpperCase) : UpperCase[i] = ch
    THEN LowerCase[CHOOSE i \in 1..Len(UpperCase) : UpperCase[i] = ch]
    ELSE ch

Lower(text) == [i \in 1..Len(text) |-> LowerChar(text[i])]

\* 'expiring' in cert_info.lower() or 'expired' in cert_info.lower()
IsFlagged(cert_info) ==
    \/ IsSubstring(<<"e", "x", "p", "i", "r", "i", "n", "g">>, Lower(cert_info))
    \/ IsSubstring(<<"e", "x", "p", "i", "r", "e", "d">>, Lower(cert_info))

\* The issues of the entries of cm.data, a list of <<cert_name, cert_info>>.
RECURSIVE DataIssues(_)
DataIssues(data) ==
    IF data = <<>> THEN <<>>
    ELSE (IF IsFlagged(Head(data)[2])
          THEN <<<<"Certificate ", Head(data)[1], " is ">> \o Head(data)[2]>>
          ELSE <<>>) \o DataIssues(Tail(data))

RECURSIVE ConfigMapIssues(_)
ConfigMapIssues(cms) ==
    IF cms = <<>> THEN <<>>
    ELSE (IF Head(cms).has_data THEN DataIssues(Head(cms).data) ELSE <<>>)
         \o ConfigMapIssues(Tail(cms))

\* The whole of check_certificates on the outcome of the configmap query; a
\* response is [present, items], present FALSE when it is None or has no items
\* attribute.
CheckCertificates(query) ==
    IF query.raised
    THEN [status |-> "Error", error |-> query.val]
    ELSE IF ~query.val.present
         THEN [status |-> "Error",
               error |-> <<"Certificate status configmap not found">>]
         ELSE LET issues == ConfigMapIssues(query.val.items)
              IN  IF issues # <<>>
                  THEN [status |-> "Warning", issues |-> issues]
                  ELSE [status |-> "Healthy",
                        message |-> <<"All certificates are valid">>]

\* ---- the responses of the configmap query ------------------------------
\* The texts a configmap holds for a certificate.
CertInfos ==
    {<<"v", "a", "l", "i", "d">>,
     <<"i", "s", " ", "E", "X", "P", "I", "R", "I", "N", "G">>,
     <<"e", "x", "p", "i", "r", "e", "d">>,
     <<"e", "x", "p", "i", "r", "e">>}

CertName(j) == <<"cert", j>>

\* cm.data with at most n entries, in the order of the dict: distinct keys.
DataLists(n) ==
    UNION {{[j \in 1..k |-> <<CertName(j), infos[j]>>] : infos \in [1..k -> CertInfos]} :
           k \in 0..n}

\* A configmap without a data attribute, or with one of at most n entries.
ConfigMaps(n) ==
    {[has_data |-> FALSE, data |-> <<>>]} \cup
    {[has_data |-> TRUE, data |-> d] : d \in DataLists(n)}

\* The lists of at most k configmaps holding at most budget entries together.
RECURSIVE ConfigMapSeqs(_, _)
ConfigMapSeqs(k, budget) ==
    IF k = 0
    THEN {<<>>}
    ELSE {<<>>} \cup
         UNION {{<<cm>> \o rest : rest \in ConfigMapSeqs(k - 1, budget - Len(cm.data))} :
                cm \in ConfigMaps(budget)}

CertificateQueries(k, budget) ==
    {Raise(ApiError), Ret([present |-> FALSE, items |-> <<>>])} \cup
    {Ret([present |-> TRUE, items |-> cms]) : cms \in ConfigMapSeqs(k, budget)}

NoCertVerdict == [status |-> "None"]

IdleCertificates ==
    /\ cert_query = Ret([present |-> FALSE, items |-> <<>>])
    /\ certpc = "idle"
    /\ cm_i = 0
    /\ cert_issues = <<>>
    /\ cert_status = NoCertVerdict

InitCertificates ==
    /\ cert_query \in CertificateQueries(MaxConfigMaps, MaxCerts)
    /\ certpc = "query"
    /\ cm_i = 0
    /\ cert_issues = <<>>
    /\ cert_status = NoCertVerdict

\* configmaps.get(...) raises: the except clause returns Error with str(e).
CertQueryRaises ==
    /\ certpc = "query"
    /\ cert_query.raised
    /\ cert_status' = [status |-> "Error", error |-> cert_query.val]
    /\ certpc' = "done"
    /\ UNCHANGED <<cert_query, cm_i, cert_issues>>
    /\ UNCHANGED notCertVars

\* if not cert_configmaps or not hasattr(cert_configmaps, 'items')
CertNotFound ==
    /\ certpc = "query"
    /\ ~cert_query.raised
    /\ ~cert_query.val.present
    /\ cert_status' = [status |-> "Error",
                       error |-> <<"Certificate status configmap not found">>]
    /\ certpc' = "done"
    /\ UNCHANGED <<cert_query, cm_i, cert_issues>>
    /\ UNCHANGED notCertVars

\* issues = []
CertQueryReturns ==
    /\ certpc = "query"
    /\ ~cert_query.raised
    /\ cert_query.val.present
    /\ cert_issues' = <<>>
    /\ certpc' = "scan"
    /\ UNCHANGED <<cert_query, cm_i, cert_status>>
    /\ UNCHANGED notCertVars

\* for cm in cert_configmaps.items: the entries of cm.data, if it has any
CertConfigMap ==
    /\ certpc = "scan"
    /\ cm_i < Len(cert_query.val.items)
    /\ LET cm == cert_query.val.items[cm_i + 1]
       IN  cert_issues' =
               cert_issues \o (IF cm.has_data THEN DataIssues(cm.data) ELSE <<>>)
    /\ cm_i' = cm_i + 1
    /\ UNCHANGED <<cert_query, certpc, cert_status>>
    /\ UNCHANGED notCertVars

\* if issues: return Warning; return Healthy
CertReturn ==
    /\ certpc = "scan"
    /\ cm_i = Len(cert_query.val.items)
    /\ cert_status' =
           IF cert_issues # <<>>
           THEN [status |-> "Warning", issues |-> cert_issues]
           ELSE [status |-> "Healthy", message |-> <<"All certificates are valid">>]
    /\ certpc' = "done"
    /\ UNCHANGED <<cert_query, cm_i, cert_issues>>
    /\ UNCHANGED notCertVars

NextCertificates ==
    \/ CertQueryRaises
    \/ CertNotFound
    \/ CertQueryReturns
    \/ CertConfigMap
    \/ CertReturn


----------------------------------------------------------------------------
(* generate_master_health_report and generate_health_report *)

\* The probes, in the order generate_master_health_report calls them.
ProbeOrder ==
    <<"master", "etcd", "api", "operators", "control_plane", "certificates">>

Probes == {ProbeOrder[i] : i \in 1..Len(ProbeOrder)}

\* The outcome of a call of each probe: every probe catches its exceptions
\* and returns a result.
MasterNodesCall(query) == Ret(CheckMasterNodes(query))
EtcdHealthCall(query, listing) == Ret(CheckEtcdHealth(query, listing))
CriticalOperatorsCall(query) == Ret(CheckCriticalOperators(query))
ControlPlanePodsCall(listings) == Ret(CheckControlPlanePods(listings))
CertificatesCall(query) == Ret(CheckCertificates(query))

\* str(x or 'None')
OrNone(list) == IF list = <<>> THEN <<<<"None">>>> ELSE list

\* etcd_status.get('error') or etcd_status.get('issues', ['Unknown error'])[0]
ErrorLine(status) ==
    IF "error" \in DOMAIN status
    THEN status.error
    ELSE Head(IF "issues" \in DOMAIN status
              THEN status.issues ELSE <<<<"Unknown error">>>>)

\* The line printed for etcd_status and for cert_status.
StatusLine(status, default) ==
    IF status.status = "Healthy"
    THEN (IF "message" \in DOMAIN status THEN status.message ELSE default)
    ELSE <<"Error: ">> \o ErrorLine(status)

\* What generate_health_report prints: three tables and two lines.
GenerateHealthReport(m_status, o_status, c_status, e_status, cert) ==
    [nodes      |-> [i \in 1..Len(m_status) |->
                       <<m_status[i].name, m_status[i].status,
                         OrNone(m_status[i].issues), OrNone(m_status[i].warnings)>>],
     operators  |-> [i \in 1..Len(o_status) |->
                       <<o_status[i].name, o_status[i].status,
                         OrNone(o_status[i].issues)>>],
     components |-> [i \in 1..Len(c_status) |->
                       <<c_status[i].name, c_status[i].namespace,
                         c_status[i].status, OrNone(c_status[i].issues)>>],
     etcd       |-> StatusLine(e_status, <<"Healthy">>),
     certs      |-> StatusLine(cert, <<"All certificates are valid">>)]

\* The results generate_master_health_report hands to generate_health_report,
\* by probe.
HandedToReport(results) ==
    [p \in {"master", "operators", "control_plane", "etcd", "certificates"} |->
        results[p]]

\* ---- the inputs of a run: what the cluster answers to each probe --------
ReadyFalse == [type |-> "Ready", status |-> "False", message |-> <<"Ready", "False">>]
DegradedTrue ==
    [type |-> "Degraded", status |-> "True", message |-> <<"Degraded", "True">>]
AvailableTrue ==
    [type |-> "Available", status |-> "True", message |-> <<"Available", "True">>]

RunMasterQueries ==
    {Raise(ApiError), Ret(<<>>),
     Ret(<<[name |-> NodeName(1), conditions |-> <<ReadyFalse>>]>>)}

HealthyEtcdPod ==
    Pod(EtcdPodName(1),
        [has_status |-> TRUE, phase |-> "Running",
         container_statuses |-> <<[name |-> ContainerName(1), ready |-> TRUE]>>])

\* <<operator query, pod listing>>
RunEtcdAnswers ==
    {<<Raise(ApiError), NotRequested>>,
     <<Ret(<<[has_conditions |-> TRUE, conditions |-> <<DegradedTrue>>]>>), NotRequested>>,
     <<Ret(<<[has_conditions |-> TRUE, conditions |-> <<AvailableTrue>>]>>),
       [pages |-> <<<<HealthyEtcdPod>>>>, failAt |-> 1]>>,
     <<Ret(<<[has_conditions |-> TRUE, conditions |-> <<AvailableTrue>>]>>),
       [pages |-> <<<<HealthyEtcdPod>>>>, failAt |-> 0]>>}

ApiPods ==
    <<[name |-> <<"k", "u", "b", "e", "-", "a", "p", "i", "s", "e", "r", "v", "e", "r", "-", "1">>, phase |-> "Running",
       container_statuses |-> <<[ready |-> TRUE, restart_count |-> 2]>>],
      [name |-> <<"k", "u", "b", "e", "-", "a", "p", "i", "s", "e", "r", "v", "e", "r", "-", "2">>, phase |-> "Pending",
       container_statuses |-> <<>>]>>

\* <<pod query, endpoint request>>
RunApiAnswers ==
    {<<Raise(ApiError), Ret(200)>>,
     <<Ret(ApiPods), Ret(200)>>,
     <<Ret(ApiPods), Ret(503)>>,
     <<Ret(ApiPods), Raise(<<"Timeout">>)>>}

RunOperatorQueries ==
    {Raise(ApiError),
     Ret(<<[name |-> OperatorName(1), has_conditions |-> TRUE,
            conditions |-> <<DegradedTrue>>]>>)}

FailedListing == [pages |-> <<<<EtcdPod>>>>, failAt |-> 1]
EtcdPodListing == [pages |-> <<<<EtcdPod>>>>, failAt |-> 0]
EmptyListing == [pages |-> <<<<>>>>, failAt |-> 0]

RunControlPlaneListings ==
    {[k \in 1..5 |-> FailedListing],
     [k \in 1..5 |-> EtcdPodListing],
     [k \in 1..5 |-> EmptyListing],
     [k \in 1..5 |-> IF k = 1 THEN FailedListing ELSE EtcdPodListing]}

RunCertificateQueries ==
    {Raise(ApiError),
     Ret([present |-> FALSE, items |-> <<>>]),
     Ret([present |-> TRUE, items |-> <<>>]),
     Ret([present |-> TRUE,
          items |-> <<[has_data |-> TRUE,
                       data |-> <<<<"kube-apiserver", <<"v", "a", "l", "i", "d">>>>,
                                  <<"etcd-peer", <<"i", "s", " ", "E", "X", "P", "I", "R", "I", "N", "G">>>>>>]>>])}

IdleRun ==
    /\ rpc = "idle"
    /\ invoked = <<>>
    /\ failed = {}
    /\ results_of = <<>>
    /\ handed = <<>>
    /\ report = <<>>

InitRun ==
    /\ rpc = "master"
    /\ invoked = <<>>
    /\ failed = {}
    /\ results_of = <<>>
    /\ handed = <<>>
    /\ report = <<>>

\* A probe is called with the cluster answering `fails` (a retrieval of the
\* probe failed) and the call ends as `outcome`: its result is kept and the
\* next statement runs, or its exception leaves generate_master_health_report.
ProbeCalled(probe, fails, outcome, next) ==
    /\ invoked' = Append(invoked, probe)
    /\ failed' = IF fails THEN failed \cup {probe} ELSE failed
    /\ IF outcome.raised
       THEN rpc' = "aborted" /\ UNCHANGED results_of
       ELSE rpc' = next /\ results_of' = results_of @@ (probe :> outcome.val)
    /\ UNCHANGED <<handed, report>>
    /\ UNCHANGED notRunVars

RunMasterNodes ==
    /\ rpc = "master"
    /\ \E query \in RunMasterQueries :
         ProbeCalled("master", query.raised, MasterNodesCall(query), "etcd")

RunEtcdHealth ==
    /\ rpc = "etcd"
    /\ \E answer \in RunEtcdAnswers :
         ProbeCalled("etcd", answer[1].raised \/ ListingFailed(answer[2]),
                     EtcdHealthCall(answer[1], answer[2]), "api")

RunApiServerHealth ==
    /\ rpc = "api"
    /\ \E answer \in RunApiAnswers :
         ProbeCalled("api", answer[1].raised,
                     CheckApiServerHealth(answer[1], answer[2]), "operators")

RunCriticalOperators ==
    /\ rpc = "operators"
    /\ \E query \in RunOperatorQueries :
         ProbeCalled("operators", query.raised, CriticalOperatorsCall(query),
                     "control_plane")

RunControlPlanePods ==
    /\ rpc = "control_plane"
    /\ \E listings \in RunControlPlaneListings :
         ProbeCalled("control_plane",
                     \E k \in 1..Len(listings) : ListingFailed(listings[k]),
                     ControlPlanePodsCall(listings), "certificates")

RunCertificates ==
    /\ rpc = "certificates"
    /\ \E query \in RunCertificateQueries :
         ProbeCalled("certificates", query.raised, CertificatesCall(query), "report")

\* self.generate_health_report(master_status, operator_status,
\*     control_plane_status, etcd_status, cert_status)
RunReport ==
    /\ rpc = "report"
    /\ handed' = HandedToReport(results_of)
    /\ report' = GenerateHealthReport(results_of["master"], results_of["operators"],
                                      results_of["control_plane"], results_of["etcd"],
                                      results_of["certificates"])
    /\ rpc' = "done"
    /\ UNCHANGED <<invoked, failed, results_of>>
    /\ UNCHANGED notRunVars

NextRun ==
    \/ RunMasterNodes
    \/ RunEtcdHealth
    \/ RunApiServerHealth
    \/ RunCriticalOperators
    \/ RunControlPlanePods
    \/ RunCertificates
    \/ RunReport

----------------------------------------------------------------------------
(* The specifications: one operation called once, on any input within the  *)
(* bounds, the others idle.                                                 *)
FetchCall ==
    InitFetch /\ IdleMaster /\ IdleOperators /\ IdleEtcd /\ IdleControlPlane /\ IdleRun
    /\ IdleCertificates
SpecFetch == FetchCall /\ [][NextFetch]_vars

MasterCall ==
    InitMaster /\ IdleFetch /\ IdleOperators /\ IdleEtcd /\ IdleControlPlane /\ IdleRun
    /\ IdleCertificates
SpecMaster == MasterCall /\ [][NextMaster]_vars

OperatorsCall ==
    InitOperators /\ IdleFetch /\ IdleMaster /\ IdleEtcd /\ IdleControlPlane /\ IdleRun
    /\ IdleCertificates
SpecOperators == OperatorsCall /\ [][NextOperators]_vars

EtcdCall ==
    InitEtcd /\ IdleFetch /\ IdleMaster /\ IdleOperators /\ IdleControlPlane /\ IdleRun
    /\ IdleCertificates
SpecEtcd == EtcdCall /\ [][NextEtcd]_vars

ControlPlaneCall ==
    InitControlPlane /\ IdleFetch /\ IdleMaster /\ IdleOperators /\ IdleEtcd /\ IdleRun
    /\ IdleCertificates
SpecControlPlane == ControlPlaneCall /\ [][NextControlPlane]_vars

RunCall ==
    InitRun /\ IdleFetch /\ IdleMaster /\ IdleOperators /\ IdleEtcd /\ IdleControlPlane
    /\ IdleCertificates
CertificatesScan ==
    InitCertificates /\ IdleFetch /\ IdleMaster /\ IdleOperators /\ IdleEtcd
    /\ IdleControlPlane /\ IdleRun
SpecCertificates == CertificatesScan /\ [][NextCertificates]_vars

SpecRun == RunCall /\ [][NextRun]_vars

\* One of the three probes that return a list of entity records is called.
ListProbeCall ==
    /\ IdleFetch /\ IdleEtcd /\ IdleCertificates /\ IdleRun
    /\ \/ InitMaster /\ IdleOperators /\ IdleControlPlane
       \/ IdleMaster /\ InitOperators /\ IdleControlPlane
       \/ IdleMaster /\ IdleOperators /\ InitControlPlane
NextListProbes == NextMaster \/ NextOperators \/ NextControlPlane
SpecListProbes == ListProbeCall /\ [][NextListProbes]_vars

----------------------------------------------------------------------------
(* Claims about the paginated fetchers (SpecFetch) *)

Failed == {i \in 1..Len(requests) : ~requests[i].ok}
NoRequestFailed == Failed = {}

\* C2: with no request failing, the fetcher returns exactly the concatenation
\* of the items of all pages in server order, whatever the sizes (0..page size)
\* of the pages. Stated for both fetchers.
C2_ReturnsAllPagesInOrder ==
    (fpc = "returned" /\ NoRequestFailed) => fresult = Flatten(pages)

\* C3: when the requests for one page k fail at most twice and then succeed,
\* _get_paginated_response returns the concatenation of all pages: the pages
\* fetched before the failure are neither discarded nor duplicated.
OnePageFailed ==
    /\ Failed # {}
    /\ Cardinality(Failed) <= 2
    /\ \A i, j \in Failed : requests[i].continue = requests[j].continue

C3_RetryKeepsEarlierPages ==
    (fetcher = "response" /\ fpc = "returned" /\ OnePageFailed)
        => fresult = Flatten(pages)

\* C4: _get_paginated_response never enters a 4th iteration of its retry
\* loop; it sleeps once after each failed attempt but the last (so twice when
\* all three fail); it raises exactly when three attempts have failed, the
\* exception carries the cause of the last failed request, and no list is
\* returned then; a returned list means the last attempt succeeded.
C4_ThreeAttemptsThenRaise ==
    fetcher = "response" =>
        /\ attempts <= 3
        /\ sleeps = (IF Cardinality(Failed) < 3 THEN Cardinality(Failed) ELSE 2)
        /\ (Cardinality(Failed) = 3) <=> (fpc = "raised")
        /\ fpc = "raised" =>
              /\ attempts = 3
              /\ sleeps = 2
              /\ Len(requests) \in Failed
              /\ ferror = Len(requests)
              /\ fresult = <<>>
        /\ fpc = "returned" => attempts = Cardinality(Failed) + 1

\* The failing page is the second one: two requests of a later attempt
\* carried its token.
C4_Witness ==
    /\ fetcher = "response"
    /\ fpc = "raised"
    /\ Cardinality(Failed) = 3
    /\ \A i \in Failed : requests[i].continue = 1

----------------------------------------------------------------------------
(* Claims about check_master_nodes (SpecMaster) *)

Severity(level) == CASE level = "Healthy" -> 0
                     [] level = "Warning" -> 1
                     [] level = "Unhealthy" -> 2

LevelOf(n) == CASE n = 0 -> "Healthy"
                [] n = 1 -> "Warning"
                [] n = 2 -> "Unhealthy"

MaxOf(S) == CHOOSE x \in S : \A y \in S : y <= x

InSeq(x, s) == \E i \in 1..Len(s) : s[i] = x

\* The severity a node condition implies: a Ready condition that is not True
\* is Unhealthy, a pressure condition that is True is Warning.
NodeConditionSeverity(c) ==
    IF c.type = "Ready" /\ c.status # "True" THEN 2
    ELSE IF c.type \in PressureTypes /\ c.status = "True" THEN 1
    ELSE 0

NodeLevel(conds) ==
    LevelOf(MaxOf({0} \cup {NodeConditionSeverity(conds[i]) : i \in 1..Len(conds)}))

\* C7: in the list check_master_nodes returns, the entity of every node whose
\* conditions (any content, any order) hold a Ready condition that is not
\* True is Unhealthy with the Ready message in its issues; the level of every
\* node is the maximum severity over its conditions; and every pressure
\* message is in its warnings.
C7_NodeLevelIsMaxSeverity ==
    (mpc = "done" /\ ~mquery.raised) =>
        \A i \in 1..Len(mquery.val) :
            LET conds == mquery.val[i].conditions
                e == master_status[i]
            IN  /\ \A k \in 1..Len(conds) :
                      /\ NodeConditionSeverity(conds[k]) = 2 =>
                            /\ e.status = "Unhealthy"
                            /\ InSeq(ReadyIssue(conds[k]), e.issues)
                      /\ NodeConditionSeverity(conds[k]) = 1 =>
                            InSeq(PressureWarning(conds[k]), e.warnings)
                /\ e.status = NodeLevel(conds)

----------------------------------------------------------------------------
(* Claims about check_critical_operators (SpecOperators) *)

\* The severity an operator condition implies.
OperatorConditionSeverity(c) ==
    IF c.type = "Degraded" /\ c.status = "True" THEN 2
    ELSE IF c.type = "Available" /\ c.status # "True" THEN 2
    ELSE IF c.type = "Progressing" /\ c.status = "True" THEN 1
    ELSE 0

OperatorLevel(conds) ==
    LevelOf(MaxOf({0} \cup {OperatorConditionSeverity(conds[i]) : i \in 1..Len(conds)}))

\* The message a firing condition leaves in the issues list.
OperatorIssue(c) ==
    CASE c.type = "Degraded" -> c.message
      [] c.type = "Progressing" -> <<"Operator is progressing: ">> \o c.message
      [] c.type = "Available" -> <<"Operator not available: ">> \o c.message

RECURSIVE FiringIssues(_)
FiringIssues(conds) ==
    IF conds = <<>> THEN <<>>
    ELSE (IF OperatorConditionSeverity(Head(conds)) > 0
          THEN <<OperatorIssue(Head(conds))>> ELSE <<>>) \o FiringIssues(Tail(conds))

\* C8: in the list check_critical_operators returns, the level of every
\* operator is the highest severity among its firing conditions (Degraded=True
\* or Available#True: Unhealthy; Progressing=True: Warning), whatever their
\* order, and its issues are the messages of all firing conditions in
\* condition order.
C8_OperatorLevelIsHighestSeverity ==
    (opc = "done" /\ ~oquery.raised) =>
        \A i \in 1..Len(oquery.val) :
            LET conds == oquery.val[i].conditions
                e == operator_status[i]
            IN  /\ e.status = OperatorLevel(conds)
                /\ e.issues = FiringIssues(conds)

----------------------------------------------------------------------------
(* Claims about check_etcd_health (SpecEtcd) *)

\* The pods a listing delivers: none when a request of it failed.
Served(listing) == IF ListingFailed(listing) THEN <<>> ELSE Flatten(listing.pages)

OperatorBad(op) ==
    /\ op.has_conditions
    /\ \E k \in 1..Len(op.conditions) :
          \/ op.conditions[k].type = "Degraded" /\ op.conditions[k].status = "True"
          \/ op.conditions[k].type = "Available" /\ op.conditions[k].status # "True"

BadPod(pod) ==
    \/ ~pod.has_status
    \/ pod.phase # "Running"
    \/ \E j \in 1..Len(pod.container_statuses) : ~pod.container_statuses[j].ready

\* An entry of the issues list names the pod: it starts with the pod's name.
NamesPod(issue, pod) ==
    /\ Len(issue) >= Len(pod.name)
    /\ SubSeq(issue, 1, Len(pod.name)) = pod.name

\* C9: check_etcd_health is a two-stage check. When the etcd operator has
\* Degraded=True or Available#True the verdict is Unhealthy and the pods are
\* never fetched. Otherwise the pods are fetched once, and: no pod found
\* gives Error; a pod that is not Running or has a container that is not
\* ready gives Unhealthy, the issues naming every such pod and no other;
\* all pods Running and ready gives Healthy.
C9_EtcdTwoStages ==
    (epc = "done" /\ ~equery.raised /\ equery.val # <<>>) =>
        IF OperatorBad(equery.val[1])
        THEN /\ etcd_status.status = "Unhealthy"
             /\ epod_fetches = 0
             /\ elisting = NotRequested
        ELSE LET pods == Served(elisting)
                 bad == {i \in 1..Len(pods) : BadPod(pods[i])}
             IN  /\ epod_fetches = 1
                 /\ pods = <<>> => etcd_status.status = "Error"
                 /\ (pods # <<>> /\ bad = {}) => etcd_status.status = "Healthy"
                 /\ bad # {} =>
                       /\ etcd_status.status = "Unhealthy"
                       /\ \A i \in bad :
                             \E k \in 1..Len(etcd_status.issues) :
                                NamesPod(etcd_status.issues[k], pods[i])
                       /\ \A k \in 1..Len(etcd_status.issues) :
                             \E i \in bad : NamesPod(etcd_status.issues[k], pods[i])

\* The operator check passes and two pods are found in two pages, one not
\* Running and one with a container that is not ready: both are listed.
C9_Witness ==
    /\ epc = "done"
    /\ ~equery.raised /\ equery.val # <<>>
    /\ equery.val[1].has_conditions /\ equery.val[1].conditions # <<>>
    /\ ~OperatorBad(equery.val[1])
    /\ Len(elisting.pages) = 2
    /\ Len(Served(elisting)) = 2
    /\ Served(elisting)[1].phase = "Pending"
    /\ Served(elisting)[2].phase = "Running"
    /\ BadPod(Served(elisting)[2])
    /\ etcd_status.status = "Unhealthy"
    /\ Len(etcd_status.issues) = 2

----------------------------------------------------------------------------
(* Claims about check_control_plane_pods (SpecControlPlane) *)

RECURSIVE ControlPlanePodsOf(_)
ControlPlanePodsOf(pods) ==
    IF pods = <<>> THEN <<>>
    ELSE (IF \E component \in components : IsSubstring(component, Head(pods).name)
          THEN <<Head(pods)>> ELSE <<>>) \o ControlPlanePodsOf(Tail(pods))

\* The records of results that belong to the namespace.
RecordsOf(results, namespace) ==
    LET OfNamespace(r) == r.namespace = namespace
    IN  SelectSeq(results, OfNamespace)

IsPlaceholder(r) ==
    \/ r = NoPodsPlaceholder(r.namespace)
    \/ r = NoControlPlanePlaceholder(r.namespace)

\* C10: each namespace processed contributes exactly one of three outcomes to
\* results: (a) no pod fetched: the one 'no pods' placeholder; (b) pods
\* fetched but none with a control plane name: the one 'no control plane
\* pods' placeholder; (c) otherwise one record per control plane pod, in
\* order, and no placeholder. The outcome of a namespace depends on its own
\* pods alone, and results holds the outcomes in namespace order.
C10_OneOutcomePerNamespace ==
    /\ \A k \in 1..Len(clistings) :
          LET namespace == critical_namespaces[k]
              pods == Served(clistings[k])
              matching == ControlPlanePodsOf(pods)
              records == RecordsOf(cresults, namespace)
          IN  /\ pods = <<>> => records = <<NoPodsPlaceholder(namespace)>>
              /\ (pods # <<>> /\ matching = <<>>) =>
                    records = <<NoControlPlanePlaceholder(namespace)>>
              /\ matching # <<>> =>
                    /\ Len(records) = Len(matching)
                    /\ \A j \in 1..Len(records) :
                          /\ records[j].name = matching[j].name
                          /\ ~IsPlaceholder(records[j])
    /\ cresults = Flatten([k \in 1..Len(clistings) |->
                              RecordsOf(cresults, critical_namespaces[k])])
    /\ cpc = "done" => control_plane_status = cresults

\* One run with the three outcomes: a namespace without pods, a namespace
\* with pods none of which is a control plane pod, and a namespace with
\* control plane pods.
C10_Witness ==
    /\ cpc = "done"
    /\ \E a, b, c \in 1..Len(critical_namespaces) :
          /\ Served(clistings[a]) = <<>> /\ ~ListingFailed(clistings[a])
          /\ Served(clistings[b]) # <<>>
          /\ ControlPlanePodsOf(Served(clistings[b])) = <<>>
          /\ Len(ControlPlanePodsOf(Served(clistings[c]))) = 2
          /\ InSeq(NoPodsPlaceholder(critical_namespaces[a]), control_plane_status)
          /\ InSeq(NoControlPlanePlaceholder(critical_namespaces[b]), control_plane_status)

----------------------------------------------------------------------------
(* Claims about generate_master_health_report (SpecRun) *)

\* C1: whichever probes have their cluster queries fail, no exception leaves
\* a probe: the six probes are called in order, each call returns a result
\* record, and the run reaches report generation.
C1_AllProbesRunAndReturn ==
    /\ rpc # "aborted"
    /\ invoked = SubSeq(ProbeOrder, 1, Len(invoked))
    /\ DOMAIN results_of = {invoked[i] : i \in 1..Len(invoked)}
    /\ rpc \in {"report", "done"} => invoked = ProbeOrder
    /\ rpc = "done" => DOMAIN report # {}

\* The queries of all six probes failed and the report was generated.
C1_Witness ==
    /\ rpc = "done"
    /\ failed = Probes
    /\ DOMAIN results_of = Probes

\* A result that is Error-level: the Error entity alone for a list-shaped
\* result, status Error for a verdict, the error record for the API server.
IsErrorLevel(probe, r) ==
    CASE probe \in {"master", "operators", "control_plane"} ->
            /\ Len(r) > 0
            /\ \A i \in 1..Len(r) : r[i].status = "Error"
      [] probe \in {"etcd", "certificates"} -> r.status = "Error"
      [] probe = "api" -> "error" \in DOMAIN r

\* C5: for every probe, when a retrieval the probe depends on failed, the
\* result of the probe is Error-level (never Healthy, Warning or Unhealthy).
C5_FailedRetrievalGivesError ==
    \A probe \in failed \cap DOMAIN results_of :
        IsErrorLevel(probe, results_of[probe])

\* C6: the results handed to generate_health_report include the result of
\* every one of the six probes of the run.
C6_ReportHoldsEveryProbeResult ==
    rpc = "done" =>
        \A probe \in Probes :
            /\ probe \in DOMAIN handed
            /\ handed[probe] = results_of[probe]


----------------------------------------------------------------------------
(* Claims about an empty answer of the node query (SpecMaster) *)

\* C12: when the master-node query succeeds and returns zero nodes,
\* check_master_nodes returns exactly one entity, and that entity is a
\* Warning-level placeholder: the list returned is not empty and holds no
\* Error entity.
C12_NoNodesGivesOneWarningPlaceholder ==
    (mpc = "done" /\ ~mquery.raised /\ mquery.val = <<>>) =>
        /\ Len(master_status) = 1
        /\ master_status[1].status = "Warning"

----------------------------------------------------------------------------
(* Claims about check_certificates (SpecCertificates) *)

\* Two characters are the same letter, whatever their case.
SameLetter(a, b) ==
    \/ a = b
    \/ \E i \in 1..Len(UpperCase) : {a, b} = {UpperCase[i], LowerCase[i]}

\* The text holds the word at some position, in any mix of cases.
ContainsAnyCase(word, text) ==
    \E k \in 0..(Len(text) - Len(word)) :
        \A j \in 1..Len(word) : SameLetter(text[k + j], word[j])

MentionsExpiry(text) ==
    \/ ContainsAnyCase(<<"e", "x", "p", "i", "r", "i", "n", "g">>, text)
    \/ ContainsAnyCase(<<"e", "x", "p", "i", "r", "e", "d">>, text)

\* The matching configuration objects the query yielded.
MatchingConfigMaps ==
    IF cert_query.val.present THEN cert_query.val.items ELSE <<>>

\* The positions <<configmap, entry>> of the values that mention an expiry.
FlaggedEntries ==
    {<<i, j>> \in (1..Len(MatchingConfigMaps)) \X (1..MaxCerts + 1) :
        /\ MatchingConfigMaps[i].has_data
        /\ j <= Len(MatchingConfigMaps[i].data)
        /\ MentionsExpiry(MatchingConfigMaps[i].data[j][2])}

\* C11: when the configmap query does not raise, check_certificates returns
\* Warning exactly when some value of some matching configmap contains
\* 'expiring' or 'expired' in any letter case, and its issues then list every
\* flagged key with its text; it returns Healthy when matching configmaps
\* exist and no value is flagged; it returns Error when the query yields no
\* matching configmap at all.
C11_CertificateVerdict ==
    (certpc = "done" /\ ~cert_query.raised) =>
        /\ (cert_status.status = "Warning") <=> (FlaggedEntries # {})
        /\ cert_status.status = "Warning" =>
              /\ Len(cert_status.issues) = Cardinality(FlaggedEntries)
              /\ \A f \in FlaggedEntries :
                    LET entry == MatchingConfigMaps[f[1]].data[f[2]]
                    IN  InSeq(<<"Certificate ", entry[1], " is ">> \o entry[2],
                              cert_status.issues)
        /\ (MatchingConfigMaps # <<>> /\ FlaggedEntries = {}) =>
              cert_status.status = "Healthy"
        /\ MatchingConfigMaps = <<>> => cert_status.status = "Error"

----------------------------------------------------------------------------
(* Claims about the entity records of the list-shaped probes (SpecListProbes) *)

\* The messages a record carries: its issues and, where it has them, its warnings.
MessagesOf(e) ==
    IF "warnings" \in DOMAIN e THEN e.issues \o e.warnings ELSE e.issues

HealthyIffNoMessage(e) == (e.status = "Healthy") <=> (MessagesOf(e) = <<>>)

CarriesIssue(e) == e.status \in {"Unhealthy", "Error"} => e.issues # <<>>

RecordSound(e) == HealthyIffNoMessage(e) /\ CarriesIssue(e)

AllSound(list) == \A i \in 1..Len(list) : RecordSound(list[i])

\* Every record, under derivation or returned, is sound; a Warning record of
\* check_control_plane_pods is a placeholder and carries its issue.
RecordsSound ==
    /\ mpc = "conds" => RecordSound(node_status)
    /\ AllSound(mresults) /\ AllSound(master_status)
    /\ opc = "conds" => RecordSound(operator_status_rec)
    /\ AllSound(oresults) /\ AllSound(operator_status)
    /\ AllSound(cresults) /\ AllSound(control_plane_status)
    /\ \A i \in 1..Len(cresults) :
          cresults[i].status = "Warning" =>
              IsPlaceholder(cresults[i]) /\ cresults[i].issues # <<>>

IsPrefix(s, t) == Len(s) <= Len(t) /\ \A i \in 1..Len(s) : s[i] = t[i]

\* From one condition to the next of the same entity, no message is lost and
\* a status that is not Healthy does not become Healthy.
StatusNotReset ==
    /\ (mpc = "conds" /\ mpc' = "conds" /\ mi' = mi) =>
          /\ IsPrefix(node_status.issues, node_status'.issues)
          /\ IsPrefix(node_status.warnings, node_status'.warnings)
          /\ node_status.status # "Healthy" => node_status'.status # "Healthy"
    /\ (opc = "conds" /\ opc' = "conds" /\ oi' = oi) =>
          /\ IsPrefix(operator_status_rec.issues, operator_status_rec'.issues)
          /\ operator_status_rec.status # "Healthy" =>
                operator_status_rec'.status # "Healthy"

\* C13: in check_master_nodes, check_critical_operators and
\* check_control_plane_pods, after every condition examined and in every
\* record returned, status is 'Healthy' if and only if issues and (where
\* present) warnings are both empty; a status is never set back to Healthy
\* once a message has been recorded; every Unhealthy, Warning-placeholder or
\* Error record carries at least one issue.
C13_HealthyIffNoMessage == []RecordsSound /\ [][StatusNotReset]_vars

\* An entity with a message recorded has a further condition examined that
\* does not fire, for a node and likewise reachable for an operator; here the
\* node: its status stays what it was.
C13_Witness ==
    /\ mpc = "conds"
    /\ mci = 2
    /\ NodeConditionSeverity(mquery.val[mi].conditions[1]) > 0
    /\ NodeConditionSeverity(mquery.val[mi].conditions[2]) = 0
    /\ node_status.status # "Healthy"
=============================================================================
